---- MODULE Spec2Model ----
(***************************************************************************)
(* netcfg: the run command.  runCfg reads a host list, maps the rules of   *)
(* the configuration to command lists (config.MapCmds), starts a pool of   *)
(* workers (configure, or connect in the earlier revision of cmd/run.go)   *)
(* that dial each host, pick a command list for the identity of the        *)
(* device and run it, and reads one result per host from a channel.        *)
(*                                                                         *)
(* Strings that the program formats and parses again (the rule keys) are   *)
(* sequences of tokens: each separator character (comma, colon, space,     *)
(* hyphen, double quote, backslash) is a token of its own, and a maximal   *)
(* run of other characters is one token.                                   *)
(***************************************************************************)
EXTENDS Integers, Sequences, FiniteSets, TLC

(***************************************************************************)
(* Bounds of the model.                                                    *)
(***************************************************************************)
MaxHosts == 2
MaxWorkersFlag == 2

(***************************************************************************)
(* Program constants.                                                      *)
(***************************************************************************)
\* runtime.NumCPU() of the machine the run takes place on
NumCPU == 1
\* the fixed factor of the earlier revision: runtime.NumCPU() * 12
ConnectFactor == 12

(***************************************************************************)
(* strings                                                                 *)
(***************************************************************************)
Empty == << >>
Sp == " "
Comma == ","
Colon == ":"
Quote == "\""
Backslash == "\\"

Str(tok) == << tok >>

\* strings.ToLower, token by token
LowerTok(t) ==
  CASE t = "CISCO" -> "cisco"
    [] t = "Cisco" -> "cisco"
    [] t = "HP" -> "hp"
    [] t = "IOS" -> "ios"
    [] t = "XE" -> "xe"
    [] t = "XR" -> "xr"
    [] t = "NX" -> "nx"
    [] t = "OS" -> "os"
    [] t = "Comware" -> "comware"
    [] t = "ProCurve" -> "procurve"
    [] t = "C3650" -> "c3650"
    [] t = "C2960S" -> "c2960s"
    [] t = "UNIVERSALK9" -> "universalk9"
    [] t = "M" -> "m"
    [] t = "Version" -> "version"
    [] t = "15.0(2)SE10a" -> "15.0(2)se10a"
    [] t = "RELEASE" -> "release"
    [] t = "SOFTWARE" -> "software"
    [] t = "Software" -> "software"
    [] t = "Release" -> "release"
    [] t = "Switch" -> "switch"
    [] t = "J9145A" -> "j9145a"
    [] t = "W.14.03" -> "w.14.03"
    [] t = "W.14.04" -> "w.14.04"
    [] t = "ROM" -> "rom"
    [] t = "NetApp" -> "netapp"
    [] OTHER -> t

ToLower(s) == [i \in 1..Len(s) |-> LowerTok(s[i])]

RECURSIVE TrimLeft(_)
TrimLeft(s) == IF s # Empty /\ Head(s) = Sp THEN TrimLeft(Tail(s)) ELSE s

RECURSIVE TrimRight(_)
TrimRight(s) ==
  IF s # Empty /\ s[Len(s)] = Sp THEN TrimRight(SubSeq(s, 1, Len(s) - 1)) ELSE s

\* strings.TrimSpace
TrimSpace(s) == TrimRight(TrimLeft(s))

\* strings.Split(s, sep) for a one-character separator: always Count(sep)+1 parts
RECURSIVE SplitFrom(_, _, _, _)
SplitFrom(s, sep, cur, acc) ==
  IF s = Empty THEN Append(acc, cur)
  ELSE IF Head(s) = sep THEN SplitFrom(Tail(s), sep, Empty, Append(acc, cur))
  ELSE SplitFrom(Tail(s), sep, Append(cur, Head(s)), acc)

Split(s, sep) == SplitFrom(s, sep, Empty, << >>)

\* strings.Replace(s, `"`, "", -1)
RemoveQuotes(s) == SelectSeq(s, LAMBDA t : t # Quote)

\* fmt's %q: the string in double quotes, quotes and backslashes escaped
RECURSIVE Escape(_)
Escape(s) ==
  IF s = Empty THEN Empty
  ELSE (IF Head(s) \in {Quote, Backslash} THEN << Backslash, Head(s) >>
        ELSE << Head(s) >>) \o Escape(Tail(s))

Quoted(s) == << Quote >> \o Escape(s) \o << Quote >>

(***************************************************************************)
(* config.MapCmds                                                          *)
(***************************************************************************)
\* a YAML value that is not a string, and the nil of a missing map index
NonString == "<int>"
NilValue == "<nil>"
IsString(v) == v \notin {NonString, NilValue}

\* s := "IP Addr: %s, Hostname: %q, Vendor: %q, OS: %q, Model: %q, Version: %q"
Sprintf(addr, hostname, vendor, os, model, version) ==
  << "IP Addr", Colon, Sp >> \o addr
    \o << Comma, Sp, "Hostname", Colon, Sp >> \o Quoted(hostname)
    \o << Comma, Sp, "Vendor", Colon, Sp >> \o Quoted(vendor)
    \o << Comma, Sp, "OS", Colon, Sp >> \o Quoted(os)
    \o << Comma, Sp, "Model", Colon, Sp >> \o Quoted(model)
    \o << Comma, Sp, "Version", Colon, Sp >> \o Quoted(version)

GenericKey == << "generic" >>

\* the keys of one cmdSet: one per model, or one with an empty model
SetKeys(set) ==
  IF Len(set.Models) > 0
  THEN [i \in 1..Len(set.Models) |->
          Sprintf(set.Addr, set.Hostname, set.Vendor, set.OS, set.Models[i], set.Version)]
  ELSE << Sprintf(set.Addr, set.Hostname, set.Vendor, set.OS, Empty, set.Version) >>

\* the key under which a command is stored
StoreKey(k) ==
  IF k = Empty \/ k = Sprintf(Empty, Empty, Empty, Empty, Empty, Empty)
  THEN GenericKey
  ELSE TrimSpace(k)

\* a store that puts the command in place of the list of the key
OverwriteCmd(cmds, k, cmd) ==
  [x \in DOMAIN cmds \cup {k} |-> IF x = k THEN << cmd >> ELSE cmds[x]]

\* cmds[k] = append(cmds[k], cmd)
AppendCmd(cmds, k, cmd) ==
  IF k \in DOMAIN cmds THEN [cmds EXCEPT ![k] = Append(@, cmd)]
  ELSE [x \in DOMAIN cmds \cup {k} |-> IF x = k THEN << cmd >> ELSE cmds[x]]

RECURSIVE StoreAll(_, _, _)
StoreAll(keys, cmd, cmds) ==
  IF keys = << >> THEN cmds
  ELSE StoreAll(Tail(keys), cmd, AppendCmd(cmds, StoreKey(Head(keys)), cmd))

\* mapCmd: an error for a command that is not a string
mapCmd(set, v, cmds) ==
  IF ~IsString(v) THEN [err |-> "expected string", cmds |-> cmds]
  ELSE [err |-> "", cmds |-> StoreAll(SetKeys(set), v, cmds)]

CmdCount(c) == IF c.kind = "seq" THEN Len(c.items) ELSE Cardinality(DOMAIN c.items)

\* a loop that hands the values to mapCmd from the last index down
CmdAtReversed(c, i) ==
  IF c.kind = "seq" THEN c.items[CmdCount(c) - i]
  ELSE IF CmdCount(c) - 1 - i \in DOMAIN c.items THEN c.items[CmdCount(c) - 1 - i]
  ELSE NilValue

\* the i-th value MapCmds hands to mapCmd: v[i] of the sequence (from 0), or
\* of the mapping, where a missing index reads as nil
CmdAt(c, i) ==
  IF c.kind = "seq" THEN c.items[i + 1]
  ELSE IF i \in DOMAIN c.items THEN c.items[i] ELSE NilValue


RECURSIVE MapSet(_, _, _)
MapSet(set, i, acc) ==
  IF acc.err # "" \/ i >= CmdCount(set.Cmds) THEN acc
  ELSE MapSet(set, i + 1, mapCmd(set, CmdAt(set.Cmds, i), acc.cmds))

RECURSIVE MapSets(_, _)
MapSets(sets, acc) ==
  IF acc.err # "" \/ sets = << >> THEN acc
  ELSE IF Head(sets).Cmds.kind \notin {"seq", "map"}
       THEN [err |-> "expected sequence or map", cmds |-> acc.cmds]
       ELSE MapSets(Tail(sets), MapSet(Head(sets), 0, acc))

NoCmds == [k \in {} |-> << >>]

\* MapCmds(cfg): the map from rule keys to command lists, or an error
MapCmds(config) == MapSets(config, [err |-> "", cmds |-> NoCmds])

(***************************************************************************)
(* the matching loop of the workers                                        *)
(***************************************************************************)
\* opts := strings.Split(info, ":") of every part of strings.Split(k, ",")
KeyOpts(k) ==
  LET parts == Split(k, Comma)
  IN [i \in 1..Len(parts) |-> Split(parts[i], Colon)]

\* opts[1] is read without a length check: index out of range
OptsPanic(opts) == \E i \in 1..Len(opts) : Len(opts[i]) < 2

KeyPanics(k) == OptsPanic(KeyOpts(k))

\* m[name] after the loop over the parts: the last part named name, "" if none
RECURSIVE OptOf(_, _, _)
OptOf(opts, name, i) ==
  IF i = 0 THEN Empty
  ELSE IF TrimSpace(opts[i][1]) = name
       THEN TrimSpace(ToLower(RemoveQuotes(opts[i][2])))
       ELSE OptOf(opts, name, i - 1)

FieldNames == {"IP Addr", "Hostname", "Vendor", "OS", "Model", "Version"}

\* the map m built from a key
KeyMap(k) ==
  LET opts == KeyOpts(k)
  IN [name \in FieldNames |-> OptOf(opts, Str(name), Len(opts))]

\* the condition of `continue`: a field the key sets differs from the client's
Differs(m, client) ==
  \/ m["IP Addr"] # Empty /\ m["IP Addr"] # ToLower(client.addr)
  \/ m["Hostname"] # Empty /\ m["Hostname"] # ToLower(client.hostname)
  \/ m["Vendor"] # Empty /\ m["Vendor"] # ToLower(client.vendor)
  \/ m["OS"] # Empty /\ m["OS"] # ToLower(client.os)
  \/ m["Model"] # Empty /\ m["Model"] # ToLower(client.model)
  \/ m["Version"] # Empty /\ m["Version"] # ToLower(client.version)

Mismatch(k, client) == Differs(KeyMap(k), client)

\* the keys whose commands are assigned to cmds in the loop
MatchingKeys(cfgCmds, client) == {k \in DOMAIN cfgCmds : ~Mismatch(k, client)}

\* The loop ranges over a Go map, whose iteration order is not specified:
\* cmds is the command list of the matching key visited last, any of them.
LoopCmds(cfgCmds, client) ==
  IF MatchingKeys(cfgCmds, client) = {} THEN {<< >>}
  ELSE {cfgCmds[k] : k \in MatchingKeys(cfgCmds, client)}

\* if genericCmds, ok := cfgCmds["generic"]; ok && len(cmds) == 0
WithGeneric(cfgCmds, cmds) ==
  IF GenericKey \in DOMAIN cfgCmds /\ Len(cmds) = 0 THEN cfgCmds[GenericKey] ELSE cmds

\* every key is parsed, whatever the order: one bad key panics the worker
SelectPanics(cfgCmds) == \E k \in DOMAIN cfgCmds : KeyPanics(k)

\* the command lists the worker may end up with for this client
SelectCmds(cfgCmds, client) ==
  {WithGeneric(cfgCmds, c) : c \in LoopCmds(cfgCmds, client)}

(***************************************************************************)
(* device: the identity of a host                                          *)
(***************************************************************************)
Hyphen == "-"

\* strings.Contains
Contains(s, sub) ==
  \E i \in 1..(Len(s) - Len(sub) + 1) : SubSeq(s, i, i + Len(sub) - 1) = sub

\* regexp FindString over the vocabulary of the model: the leftmost of the
\* given matches that occurs in s (the longest at that place), "" if none
OccursAt(s, m, i) == i + Len(m) - 1 <= Len(s) /\ SubSeq(s, i, i + Len(m) - 1) = m

FindString(matches, s) ==
  LET hits == {<<i, m>> \in (1..Len(s)) \X matches : OccursAt(s, m, i)}
  IN IF hits = {} THEN Empty
     ELSE (CHOOSE h \in hits :
             \A g \in hits : h[1] < g[1] \/ (h[1] = g[1] /\ Len(h[2]) >= Len(g[2])))[2]

\* the matches of the regular expressions of parseSysDescr in the vocabulary
CiscoModelRe == {<< "C2960S" >>, << "C3650" >>}
CiscoSoftwareRe == {<< "C2960S", Hyphen, "UNIVERSALK9", Hyphen, "M" >>}
CiscoVersionRe ==
  {<< "Version", Sp, "15.0(2)SE10a", Comma, Sp, "RELEASE", Sp, "SOFTWARE", Sp, "(fc3)" >>}
HPModelRe ==
  {<< "HP", Sp, "5130", Sp, "Switch" >>, << "ProCurve", Sp, "J9145A", Sp, "Switch", Comma >>}
ComwareVersionRe ==
  {<< "Software", Sp, "Version", Sp, "7.1.070", Comma, Sp, "Release", Sp, "1309" >>}
ProCurveVersionRe == {<< "revision", Sp, "W.14.03", Comma, Sp, "ROM", Sp, "W.14.04" >>}

\* strings.Replace(version, ",", "", 5)
RECURSIVE RemoveCommas(_, _)
RemoveCommas(s, n) ==
  IF s = Empty \/ n = 0 THEN s
  ELSE IF Head(s) = Comma THEN RemoveCommas(Tail(s), n - 1)
  ELSE << Head(s) >> \o RemoveCommas(Tail(s), n)

\* a map without the version key
NoInfoShort ==
  [addr |-> Empty, hostname |-> Empty, vendor |-> Empty, os |-> Empty, model |-> Empty]

\* m := map[string]string{"addr": "", ..., "version": ""}
NoInfo ==
  [addr |-> Empty, hostname |-> Empty, vendor |-> Empty,
   os |-> Empty, model |-> Empty, version |-> Empty]

\* a classifier that looks for IOS XE before IOS XR
CiscoOSXEFirst(d) ==
  IF Contains(d, << "IOS" >>)
  THEN IF Contains(d, << "IOS", Sp, "XE" >>) \/ Contains(d, << "IOS", Hyphen, "XE" >>)
       THEN << "IOS", Sp, "XE" >>
       ELSE IF Contains(d, << "IOS", Sp, "XR" >>) \/ Contains(d, << "IOS", Hyphen, "XR" >>)
            THEN << "IOS", Sp, "XR" >>
            ELSE << "IOS" >>
  ELSE IF Contains(d, << "NX", Sp, "OS" >>) \/ Contains(d, << "NX", Hyphen, "OS" >>)
       THEN << "NX", Hyphen, "OS" >>
       ELSE Empty

CiscoOS(d) ==
  IF Contains(d, << "IOS" >>)
  THEN IF Contains(d, << "IOS", Sp, "XR" >>) \/ Contains(d, << "IOS", Hyphen, "XR" >>)
       THEN << "IOS", Sp, "XR" >>
       ELSE IF Contains(d, << "IOS", Sp, "XE" >>) \/ Contains(d, << "IOS", Hyphen, "XE" >>)
            THEN << "IOS", Sp, "XE" >>
            ELSE << "IOS" >>
  ELSE IF Contains(d, << "NX", Sp, "OS" >>) \/ Contains(d, << "NX", Hyphen, "OS" >>)
       THEN << "NX", Hyphen, "OS" >>
       ELSE Empty

\* a parser that reads the operating system whatever the vendor
ParseOSFirst(d) == [NoInfo EXCEPT !.os = CiscoOS(d)]

\* parseSysDescr: the identity read from the sysDescr.0 string
parseSysDescr(d) ==
  IF Contains(d, << "Cisco" >>)
  THEN [NoInfo EXCEPT
          !.vendor = << "CISCO" >>,
          !.model = FindString(CiscoModelRe, d),
          !.version = TrimSpace(FindString(CiscoSoftwareRe, d) \o << Sp >>
                                  \o RemoveCommas(FindString(CiscoVersionRe, d), 5)),
          !.os = CiscoOS(d)]
  ELSE IF Contains(d, << "Hewlett", Sp, "Packard" >>) \/ Contains(d, << "HP" >>)
            \/ Contains(d, << "ProCurve" >>)
  THEN IF Contains(d, << "Comware" >>)
       THEN [NoInfo EXCEPT
               !.vendor = << "HP" >>, !.model = FindString(HPModelRe, d),
               !.os = << "Comware" >>, !.version = FindString(ComwareVersionRe, d)]
       ELSE IF Contains(d, << "ProCurve" >>)
       THEN [NoInfo EXCEPT
               !.vendor = << "HP" >>, !.model = FindString(HPModelRe, d),
               !.os = << "ProCurve" >>, !.version = FindString(ProCurveVersionRe, d)]
       ELSE [NoInfo EXCEPT !.vendor = << "HP" >>, !.model = FindString(HPModelRe, d)]
  ELSE NoInfo

\* what the SNMP probe of getSysDescr answers: no answer, or a description
ProbeFailed == << "<no answer>" >>
DescrCisco ==
  << "Cisco", Sp, "IOS", Sp, "Software", Comma, Sp, "C2960S", Sp, "Software", Sp, "(",
     "C2960S", Hyphen, "UNIVERSALK9", Hyphen, "M", ")", Comma, Sp,
     "Version", Sp, "15.0(2)SE10a", Comma, Sp, "RELEASE", Sp, "SOFTWARE", Sp, "(fc3)" >>
DescrUnknown == << "NetApp", Sp, "Release" >>
Probes == {ProbeFailed, DescrCisco, DescrUnknown}

\* more sysDescr.0 strings, after the descriptions of the tests
Newline == "\n"
DescrCisco3650 ==
  << "Cisco", Sp, "IOS", Sp, "Software", Comma, Sp, "C3650", Sp, "Software" >>
DescrComware ==
  << "HP", Sp, "Comware", Sp, "Platform", Sp, "Software", Comma, Sp,
     "Software", Sp, "Version", Sp, "7.1.070", Comma, Sp, "Release", Sp, "1309",
     Newline, "HP", Sp, "5130", Sp, "Switch" >>
DescrProCurve ==
  << "ProCurve", Sp, "J9145A", Sp, "Switch", Comma, Sp,
     "revision", Sp, "W.14.03", Comma, Sp, "ROM", Sp, "W.14.04" >>
Descrs == Probes \cup {DescrCisco3650, DescrComware, DescrProCurve}

\* getSysDescr: the map sent on the info channel
getSysDescr(probe) == IF probe = ProbeFailed THEN NoInfo ELSE parseSysDescr(probe)

\* sysDescr: the probed identity with the address and the looked-up name
sysDescr(addr, names, probe) ==
  [getSysDescr(probe) EXCEPT
     !.addr = addr,
     !.hostname = IF Len(names) > 0 THEN names[1] ELSE Empty]

\* strings.Join(s[:len(s)-1], "") of strings.Split(remoteAddr, ":")
RECURSIVE JoinAll(_)
JoinAll(parts) == IF parts = << >> THEN Empty ELSE Head(parts) \o JoinAll(Tail(parts))

DialAddr(remoteAddr) ==
  JoinAll(SubSeq(Split(remoteAddr, Colon), 1, Len(Split(remoteAddr, Colon)) - 1))

\* the address a dialled host answers from: net.JoinHostPort(host, "22")
RemoteAddr(host) == << host, Colon, "22" >>

\* Dial, once ssh.Dial has succeeded: the client with its identity
DialClient(host, names, probe) == sysDescr(DialAddr(RemoteAddr(host)), names, probe)

\* Client.String
ClientString(c) ==
  << "IP Addr", Colon, Sp >> \o c.addr
    \o << Comma, Sp, "Hostname", Colon, Sp >> \o c.hostname
    \o << Comma, Sp, "Vendor", Colon, Sp >> \o c.vendor
    \o << Comma, Sp, "OS", Colon, Sp >> \o c.os
    \o << Comma, Sp, "Model", Colon, Sp >> \o c.model
    \o << Comma, Sp, "Version", Colon, Sp >> \o c.version

\* how a session may end, and what Client.Run returns for it: the output
\* and a nil error also when session.Wait returns an ExitError or an
\* ExitMissingError
RunOutcomes == {"ok", "exitError", "exitMissingError", "timeout"}

ClientRun(outcome, cmds) ==
  CASE outcome = "timeout" -> [out |-> << >>, err |-> "session timed out"]
    [] OTHER -> [out |-> cmds, err |-> ""]

(***************************************************************************)
(* inputs of a run                                                         *)
(***************************************************************************)
HostName(k) ==
  CASE k = 1 -> "10.0.0.1" [] k = 2 -> "10.0.0.2" [] k = 3 -> "10.0.0.3"
    [] OTHER -> "10.0.0.4"

AllHosts == {HostName(k) : k \in 1..MaxHosts}

\* the hosts file: unreadable, or its lines; a line past the scanner's
\* buffer ends the scan with an error
HostLines(n) == [k \in 1..n |-> HostName(k)]
BlankAfterEach(lines) == [k \in 1..(2 * Len(lines)) |-> IF k % 2 = 1 THEN lines[(k + 1) \div 2] ELSE ""]
HostFiles ==
  {[readable |-> FALSE, tooLong |-> FALSE, lines |-> << >>],
   [readable |-> TRUE, tooLong |-> TRUE, lines |-> HostLines(1)],
   [readable |-> TRUE, tooLong |-> FALSE, lines |-> << "" >>]}
    \cup {[readable |-> TRUE, tooLong |-> FALSE, lines |-> HostLines(n)] : n \in 0..MaxHosts}
    \cup {[readable |-> TRUE, tooLong |-> FALSE, lines |-> BlankAfterEach(HostLines(1))]}

\* the lines the scanner yields that are not blank
RECURSIVE ScanHosts(_)
ScanHosts(lines) ==
  IF lines = << >> THEN << >>
  ELSE IF Head(lines) # "" THEN << Head(lines) >> \o ScanHosts(Tail(lines))
  ELSE ScanHosts(Tail(lines))

\* the cmdSets of cfg.Config
AnySet ==
  [Addr |-> Empty, Hostname |-> Empty, Vendor |-> Empty, OS |-> Empty,
   Models |-> << >>, Version |-> Empty, Cmds |-> [kind |-> "seq", items |-> << >>]]
SeqCmds(items) == [kind |-> "seq", items |-> items]
GenericSet == [AnySet EXCEPT !.Cmds = SeqCmds(<< "g1" >>)]
CiscoSet == [AnySet EXCEPT !.Vendor = << "cisco" >>, !.Cmds = SeqCmds(<< "c1", "c2" >>)]
BadSet == [AnySet EXCEPT !.Vendor = << "cisco" >>, !.Cmds = SeqCmds(<< "c1", NonString >>)]
ScalarSet == [AnySet EXCEPT !.Cmds = [kind |-> "scalar", items |-> << >>]]

Configs ==
  {<< >>, << CiscoSet >>, << GenericSet, CiscoSet >>, << BadSet >>, << ScalarSet >>}

\* the values of the --workers flag
WorkerFlags == (-1)..MaxWorkersFlag

(***************************************************************************)
(* the state of a run                                                      *)
(***************************************************************************)
VARIABLES
  variant,        \* which revision of cmd/run.go runs: "configure" or "connect"
  pcMain,         \* where runCfg is
  mainErr,        \* the error runCfg returned, "" for nil
  hosts,          \* the host list
  cfg,            \* cfg.Config, the cmdSets of the configuration in their order
  cfgCmds,        \* the map of MapCmds
  next,           \* how many hosts have been sent to the workers
  nread,          \* the aggregator's loop counter i
  printed,        \* per host, the lines written for it (stdout or stderr)
  devices,        \* the work queue (jobs / devices): the buffered hosts
  devicesClosed,
  results,        \* the results channel: the buffered results
  resultsClosed,
  wg,             \* the WaitGroup counter
  worker,         \* the workers: where each is, and its locals
  closer,         \* the goroutine that waits for the workers
  crashed,        \* the panic that ended the process, "" if none
  exited,         \* the process has ended after runCfg returned
  dequeued,       \* per host, how often a worker received it
  dialed,         \* per host, how often Dial was called for it
  sent,           \* per host, how many results were sent for it
  ran,            \* per host, how often Client.Run was called for it
  conn,           \* per host, its connection: "none", "open", "closed"
  closes,         \* how often close(results) was executed
  snmp,           \* sysDescr: what the SNMP agent of the address answers
  lookup,         \* sysDescr: what net.LookupAddr answers
  pcSys,          \* where sysDescr is
  pcGet,          \* where the goroutine getSysDescr is
  pending,        \* the map getSysDescr is about to send on info
  infoSends,      \* how many maps were sent on the info channel
  infoClosed,     \* the info channel is closed
  hostname,       \* sysDescr's local hostname
  m,              \* the map sysDescr returns, once it has returned
  Timeout,        \* the global device.Timeout
  remote,         \* Client.Run: how the remote host behaves in the session
  pcRun,          \* where Client.Run is
  written,        \* how many commands Client.Run has written to stdin
  session,        \* the ssh session: "none", "open", "closed"
  sessionCloses,  \* how often session.Close() was executed
  pcHelper,       \* where the goroutine that calls session.Wait() is
  waitErr,        \* what session.Wait() returned to the goroutine
  wait,           \* the wait channel: the buffered errors
  timer,          \* the channel of time.After(Timeout) has a value
  runRet          \* what Client.Run returned

identVars ==
  << snmp, lookup, pcSys, pcGet, pending, infoSends, infoClosed, hostname, m >>

sessVars ==
  << Timeout, remote, pcRun, written, session, sessionCloses, pcHelper, waitErr, wait,
     timer, runRet >>

vars ==
  << variant, pcMain, mainErr, hosts, cfg, cfgCmds, next, nread, printed, devices,
     devicesClosed, results, resultsClosed, wg, worker, closer, crashed, exited,
     dequeued, dialed, sent, ran, conn, closes, identVars, sessVars >>

mainVars == << pcMain, mainErr, hosts, cfg, cfgCmds, next, nread, printed >>
histVars == << dequeued, dialed, sent, ran, conn, closes >>

NoClient == NoInfo
NoResult == [job |-> "", host |-> Empty, out |-> << >>, err |-> ""]
IdleWorker ==
  [pc |-> "recv", host |-> "", client |-> NoClient, cmds |-> << >>,
   res |-> NoResult, ret |-> FALSE]

Workers == DOMAIN worker
Running == crashed = "" /\ ~exited

\* a results channel one slot short of the number of hosts
ResultsCapShort(n) == n - 1

\* make(chan string, len(hosts)) and make(chan result, len(hosts))
DevicesCap(n) == n
ResultsCap(n) == n

\* the SNMP agent of an address: whether snmp.NewClient and client.Get
\* succeed, and the sysDescr.0 string of the answer
NoAgent == [client |-> FALSE, get |-> FALSE, descr |-> Empty]
\* net.LookupAddr: its error and the names it returns
NoNames == [err |-> TRUE, names |-> << >>]

\* sysDescr is not running
IdentIdle ==
  /\ snmp = NoAgent
  /\ lookup = NoNames
  /\ pcSys = "idle"
  /\ pcGet = "idle"
  /\ pending = NoInfo
  /\ infoSends = 0
  /\ infoClosed = FALSE
  /\ hostname = Empty
  /\ m = NoInfo

\* runCfg has not begun
RunIdle ==
  /\ pcMain = "start"
  /\ mainErr = ""
  /\ hosts = << >>
  /\ cfg = << >>
  /\ cfgCmds = NoCmds
  /\ next = 0
  /\ nread = 0
  /\ printed = [h \in AllHosts |-> << >>]
  /\ devices = << >>
  /\ devicesClosed = FALSE
  /\ results = << >>
  /\ resultsClosed = FALSE
  /\ wg = 0
  /\ worker = << >>
  /\ closer = "none"
  /\ crashed = ""
  /\ exited = FALSE
  /\ dequeued = [h \in AllHosts |-> 0]
  /\ dialed = [h \in AllHosts |-> 0]
  /\ sent = [h \in AllHosts |-> 0]
  /\ ran = [h \in AllHosts |-> 0]
  /\ conn = [h \in AllHosts |-> "none"]
  /\ closes = 0

\* what the remote host does in a session; a host that answers every request
\* and ends the session with status 0
Cooperative == [open |-> "ok", shell |-> "ok", stdin |-> "ok", ends |-> "nil"]
NoReturn == [out |-> << >>, err |-> "not returned"]

\* Client.Run is not running
SessIdle ==
  /\ remote = Cooperative
  /\ pcRun = "idle"
  /\ written = 0
  /\ session = "none"
  /\ sessionCloses = 0
  /\ pcHelper = "none"
  /\ waitErr = ""
  /\ wait = << >>
  /\ timer = FALSE
  /\ runRet = NoReturn

\* device.Timeout = cfg.Timeout: the timeout of the configuration file, in
\* seconds; 0 when the file has none
ConfigTimeout == 10

Start == RunIdle /\ IdentIdle /\ SessIdle /\ Timeout = ConfigTimeout

\* the run command of the later revision, with the configure workers
Init == variant = "configure" /\ Start

\* the run command of the earlier revision, with the connect workers
InitConnect == variant = "connect" /\ Start

(***************************************************************************)
(* runCfg                                                                  *)
(***************************************************************************)
Return(err) ==
  /\ pcMain' = "returned"
  /\ mainErr' = err

\* a read of the hosts file that lets an empty host list through
ReadHostsErrNoEmpty(v, file) ==
  IF ~file.readable THEN "run: failed to read hosts"
  ELSE IF v = "configure" /\ file.tooLong THEN "run: error scanning hosts"
  ELSE ""

\* the error of reading the hosts file, "" if the host list is usable; the
\* earlier revision does not look at the scanner's error
ReadHostsErr(v, file) ==
  IF ~file.readable THEN "run: failed to read hosts"
  ELSE IF v = "configure" /\ file.tooLong THEN "run: error scanning hosts"
  ELSE IF Len(ScanHosts(file.lines)) = 0 THEN "run: no hosts to configure"
  ELSE ""

\* ioutil.ReadFile(cfg.Hosts), the scan of its lines, len(hosts) == 0
ReadHosts ==
  /\ Running /\ pcMain = "start"
  /\ \E file \in HostFiles :
       /\ hosts' = IF file.readable /\ ~(variant = "configure" /\ file.tooLong)
                   THEN ScanHosts(file.lines) ELSE << >>
       /\ IF ReadHostsErr(variant, file) # ""
          THEN Return(ReadHostsErr(variant, file))
          ELSE pcMain' = "map" /\ mainErr' = mainErr
  /\ UNCHANGED << variant, identVars, sessVars, cfg, cfgCmds, next, nread, printed, devices, devicesClosed,
                  results, resultsClosed, wg, worker, closer, crashed, exited,
                  histVars >>

\* the error of mapping the rules, "" if there are commands to run
MapRulesErr(config) ==
  IF MapCmds(config).err # "" THEN "run: could not map commands"
  ELSE IF Cardinality(DOMAIN MapCmds(config).cmds) = 0
       THEN "run: no configuration commands to run"
       ELSE ""

\* config.MapCmds(cfg), len(cfgCmds) == 0, and the two channels
MapRules ==
  /\ Running /\ pcMain = "map"
  /\ \E config \in Configs :
       /\ cfg' = config
       /\ IF MapRulesErr(config) # ""
          THEN Return(MapRulesErr(config)) /\ cfgCmds' = cfgCmds
          ELSE /\ cfgCmds' = MapCmds(config).cmds
               /\ pcMain' = "start workers"
               /\ mainErr' = mainErr
  /\ UNCHANGED << variant, identVars, sessVars, hosts, next, nread, printed, devices, devicesClosed,
                  results, resultsClosed, wg, worker, closer, crashed, exited,
                  histVars >>

\* numWorkers := runtime.NumCPU() * workers, or * 12 in the earlier revision
NumWorkers(v, flag) == IF v = "configure" THEN NumCPU * flag ELSE NumCPU * ConnectFactor

\* wg.Add(numWorkers), the go statements of the workers and of the waiting
\* goroutine; wg.Add panics on a negative counter
StartWorkers ==
  /\ Running /\ pcMain = "start workers"
  /\ \E flag \in WorkerFlags :
       IF NumWorkers(variant, flag) < 0
       THEN /\ crashed' = "sync: negative WaitGroup counter"
            /\ UNCHANGED << wg, worker, closer, pcMain >>
       ELSE /\ wg' = wg + NumWorkers(variant, flag)
            /\ worker' = [w \in 1..NumWorkers(variant, flag) |-> IdleWorker]
            /\ closer' = "wait"
            /\ pcMain' = "send jobs"
            /\ crashed' = crashed
  /\ UNCHANGED << variant, identVars, sessVars, mainErr, hosts, cfg, cfgCmds, next, nread, printed, devices,
                  devicesClosed, results, resultsClosed, exited, histVars >>

\* devices <- host, for the next host of the list
SendJob ==
  /\ Running /\ pcMain = "send jobs" /\ next < Len(hosts)
  /\ Len(devices) < DevicesCap(Len(hosts))
  /\ devices' = Append(devices, hosts[next + 1])
  /\ next' = next + 1
  /\ UNCHANGED << variant, identVars, sessVars, pcMain, mainErr, hosts, cfg, cfgCmds, nread, printed,
                  devicesClosed, results, resultsClosed, wg, worker, closer,
                  crashed, exited, histVars >>

\* close(devices)
CloseJobs ==
  /\ Running /\ pcMain = "send jobs" /\ next = Len(hosts)
  /\ devicesClosed' = TRUE
  /\ pcMain' = "read results"
  /\ UNCHANGED << variant, identVars, sessVars, mainErr, hosts, cfg, cfgCmds, next, nread, printed, devices,
                  results, resultsClosed, wg, worker, closer, crashed, exited,
                  histVars >>

\* the line written for a result: to stderr for an error, else to stdout
Line(res) ==
  IF res.err # "" THEN [stream |-> "stderr", host |-> res.host, text |-> << res.err >>]
  ELSE [stream |-> "stdout", host |-> res.host, text |-> res.out]

\* an aggregator that gives up at the first host that failed
StopsOnError(res) == res.err # ""

\* if res.err != nil: the error is printed and the loop continues
StopsOn(res) == FALSE

\* res, ok := <-results with a result in the buffer
ReadResult ==
  /\ Running /\ pcMain = "read results" /\ nread < Len(hosts)
  /\ results # << >>
  /\ results' = Tail(results)
  /\ printed' = [printed EXCEPT ![Head(results).job] = Append(@, Line(Head(results)))]
  /\ nread' = nread + 1
  /\ IF StopsOn(Head(results)) THEN Return(Head(results).err)
     ELSE UNCHANGED << pcMain, mainErr >>
  /\ UNCHANGED << variant, identVars, sessVars, hosts, cfg, cfgCmds, next, devices,
                  devicesClosed, resultsClosed, wg, worker, closer, crashed,
                  exited, histVars >>

\* what runCfg returns when it finds the results channel closed
ClosedErr(v) == IF v = "configure" THEN "run: error reading results, nil channel" ELSE ""

\* res, ok := <-results on the closed and drained channel: !ok
ReadClosed ==
  /\ Running /\ pcMain = "read results" /\ nread < Len(hosts)
  /\ results = << >> /\ resultsClosed
  /\ Return(ClosedErr(variant))
  /\ UNCHANGED << variant, identVars, sessVars, hosts, cfg, cfgCmds, next, nread, printed, devices,
                  devicesClosed, results, resultsClosed, wg, worker, closer,
                  crashed, exited, histVars >>

\* return nil after the loop
ReturnNil ==
  /\ Running /\ pcMain = "read results" /\ nread = Len(hosts)
  /\ Return("")
  /\ UNCHANGED << variant, identVars, sessVars, hosts, cfg, cfgCmds, next, nread, printed, devices,
                  devicesClosed, results, resultsClosed, wg, worker, closer,
                  crashed, exited, histVars >>

\* the process ends once runCfg has returned: every goroutine ends with it
ProcessExit ==
  /\ Running /\ pcMain = "returned"
  /\ exited' = TRUE
  /\ UNCHANGED << variant, identVars, sessVars, mainVars, devices, devicesClosed, results,
                  resultsClosed, wg, worker, closer, crashed, histVars >>

(***************************************************************************)
(* the workers: configure, and connect of the earlier revision             *)
(***************************************************************************)
\* Workers waiting on the queue hold no state of their own and are
\* interchangeable: the one that receives or leaves next is taken to be the
\* first of them.
Waiting == {w \in Workers : worker[w].pc = "recv"}
FirstWaiting(w) == w \in Waiting /\ \A v \in Waiting : w <= v

\* receiving takes the host off the queue
\* a receive that leaves the host in the queue
DequeueKeeps(q) == q

Dequeue(q) == Tail(q)

\* for host := range devices, with a host in the queue
Recv(w) ==
  /\ Running /\ FirstWaiting(w)
  /\ devices # << >>
  /\ worker' = [worker EXCEPT ![w] = [IdleWorker EXCEPT !.pc = "dial", !.host = Head(devices)]]
  /\ devices' = Dequeue(devices)
  /\ dequeued' = [dequeued EXCEPT ![Head(devices)] = @ + 1]
  /\ UNCHANGED << variant, identVars, sessVars, mainVars, devicesClosed, results, resultsClosed, wg,
                  closer, crashed, exited, dialed, sent, ran, conn, closes >>

\* after a failure connect returns, configure continues with the next host
ReturnsAfterFailure(v) == v = "connect"

\* the error of the result sent when Dial fails
DialErr(v) == IF v = "configure" THEN "failed to dial: no route" ELSE "no route"

\* the error of the result sent when no command was selected: connect sends
\* the err of the successful Dial, which is nil
NoCmdsErr(v) == IF v = "configure" THEN "no commands to run" ELSE ""

\* the error of the result sent when Client.Run fails
RunErr(v, err) == IF v = "configure" THEN "failed to run commands: " \o err ELSE err

\* what net.LookupAddr may answer
Lookups == {<< >>, << << "sw1" >> >>}

\* a worker that dials again after a failed Dial
RetryDial == "dial"

\* a worker that runs the commands although Dial failed
RunAfterDialFailure == "run"

\* a failed Dial is reported, not repeated
AfterDialFailure == "send"

\* client, err := device.Dial(host, "22", clientCfg)
Dial(w) ==
  /\ Running /\ w \in Workers /\ worker[w].pc = "dial"
  /\ dialed' = [dialed EXCEPT ![worker[w].host] = @ + 1]
  /\ \/ /\ worker' = [worker EXCEPT
                        ![w].pc = AfterDialFailure,
                        ![w].ret = ReturnsAfterFailure(variant),
                        ![w].res = [job |-> worker[w].host, host |-> Str(worker[w].host),
                                    out |-> << >>, err |-> DialErr(variant)]]
        /\ conn' = conn
     \/ \E names \in Lookups, probe \in Probes :
          /\ worker' = [worker EXCEPT
                          ![w].pc = "match",
                          ![w].client = DialClient(worker[w].host, names, probe)]
          /\ conn' = [conn EXCEPT ![worker[w].host] = "open"]
  /\ UNCHANGED << variant, identVars, sessVars, mainVars, devices, devicesClosed, results,
                  resultsClosed, wg, closer, crashed, exited, dequeued, sent, ran,
                  closes >>

\* the loop over cfgCmds, the generic fallback and len(cmds) == 0
Match(w) ==
  /\ Running /\ w \in Workers /\ worker[w].pc = "match"
  /\ IF SelectPanics(cfgCmds)
     THEN /\ crashed' = "panic: index out of range"
          /\ worker' = worker
     ELSE /\ crashed' = crashed
          /\ \E cmds \in SelectCmds(cfgCmds, worker[w].client) :
               IF Len(cmds) = 0
               THEN worker' = [worker EXCEPT
                                 ![w].pc = "send",
                                 ![w].ret = ReturnsAfterFailure(variant),
                                 ![w].res = [job |-> worker[w].host,
                                             host |-> Str(worker[w].host),
                                             out |-> << >>, err |-> NoCmdsErr(variant)]]
               ELSE worker' = [worker EXCEPT ![w].pc = "run", ![w].cmds = cmds]
  /\ UNCHANGED << variant, identVars, sessVars, mainVars, devices, devicesClosed, results,
                  resultsClosed, wg, closer, exited, histVars >>

\* out, err := client.Run(cmds...)
Run(w) ==
  /\ Running /\ w \in Workers /\ worker[w].pc = "run"
  /\ ran' = [ran EXCEPT ![worker[w].host] = @ + 1]
  /\ \E outcome \in RunOutcomes :
       LET r == ClientRun(outcome, worker[w].cmds) IN
       IF r.err # ""
       THEN worker' = [worker EXCEPT
                         ![w].pc = "send",
                         ![w].ret = ReturnsAfterFailure(variant),
                         ![w].res = [job |-> worker[w].host, host |-> Str(worker[w].host),
                                     out |-> << >>, err |-> RunErr(variant, r.err)]]
       ELSE worker' = [worker EXCEPT
                         ![w].pc = "send",
                         ![w].res = [job |-> worker[w].host,
                                     host |-> ClientString(worker[w].client),
                                     out |-> r.out, err |-> ""]]
  /\ UNCHANGED << variant, identVars, sessVars, mainVars, devices, devicesClosed, results,
                  resultsClosed, wg, closer, crashed, exited, dequeued, dialed,
                  sent, conn, closes >>

\* where a worker goes once it is done with a host
NextHost(ret) == IF ret THEN "return" ELSE "recv"

\* results <- result{...}: a send on a closed channel panics
Send(w) ==
  /\ Running /\ w \in Workers /\ worker[w].pc = "send"
  /\ IF resultsClosed
     THEN /\ crashed' = "panic: send on closed channel"
          /\ UNCHANGED << results, worker, sent >>
     ELSE /\ Len(results) < ResultsCap(Len(hosts))
          /\ results' = Append(results, worker[w].res)
          /\ sent' = [sent EXCEPT ![worker[w].host] = @ + 1]
          /\ crashed' = crashed
          /\ worker' = [worker EXCEPT
                          ![w].pc = IF conn[worker[w].host] = "open" THEN "close"
                                    ELSE NextHost(worker[w].ret)]
  /\ UNCHANGED << variant, identVars, sessVars, mainVars, devices, devicesClosed, resultsClosed, wg,
                  closer, exited, dequeued, dialed, ran, conn, closes >>

\* a worker that goes on without client.Close()
CloseSkipped(w) ==
  /\ Running /\ w \in Workers /\ worker[w].pc = "close"
  /\ worker' = [worker EXCEPT ![w].pc = NextHost(worker[w].ret)]
  /\ UNCHANGED << variant, identVars, sessVars, mainVars, devices, devicesClosed, results,
                  resultsClosed, wg, closer, crashed, exited, histVars >>

\* client.Close(), then continue or return
Close(w) ==
  /\ Running /\ w \in Workers /\ worker[w].pc = "close"
  /\ conn' = [conn EXCEPT ![worker[w].host] = "closed"]
  /\ worker' = [worker EXCEPT ![w].pc = NextHost(worker[w].ret)]
  /\ UNCHANGED << variant, identVars, sessVars, mainVars, devices, devicesClosed, results,
                  resultsClosed, wg, closer, crashed, exited, dequeued, dialed,
                  sent, ran, closes >>

\* the range loop ends on the closed and drained queue
LoopEnds(w) == FirstWaiting(w) /\ devices = << >> /\ devicesClosed

\* the worker leaves its function: the deferred wg.Done()
WorkerDone(w) ==
  /\ Running /\ w \in Workers
  /\ worker[w].pc = "return" \/ LoopEnds(w)
  /\ worker' = [worker EXCEPT ![w] = [IdleWorker EXCEPT !.pc = "done"]]
  /\ wg' = wg - 1
  /\ UNCHANGED << variant, identVars, sessVars, mainVars, devices, devicesClosed, results,
                  resultsClosed, closer, crashed, exited, histVars >>

(***************************************************************************)
(* the goroutine that waits for the workers                                *)
(***************************************************************************)
\* what follows wg.Wait(): close(results), or nothing in the earlier revision
AfterWait(v) == IF v = "configure" THEN "close" ELSE "done"

\* a wait that does not wait for the workers
WaitOverAtOnce(counter) == TRUE

\* wg.Wait() returns when the counter is zero
WaitOver(counter) == counter = 0

WaitReturns ==
  /\ Running /\ closer = "wait" /\ WaitOver(wg)
  /\ closer' = AfterWait(variant)
  /\ UNCHANGED << variant, identVars, sessVars, mainVars, devices, devicesClosed, results,
                  resultsClosed, wg, worker, crashed, exited, histVars >>

\* close(results): closing a closed channel panics
CloseResults ==
  /\ Running /\ closer = "close"
  /\ IF resultsClosed
     THEN crashed' = "panic: close of closed channel"
          /\ UNCHANGED << resultsClosed, closes, closer >>
     ELSE /\ resultsClosed' = TRUE
          /\ closes' = closes + 1
          /\ closer' = "done"
          /\ crashed' = crashed
  /\ UNCHANGED << variant, identVars, sessVars, mainVars, devices, devicesClosed, results, wg, worker,
                  exited, dequeued, dialed, sent, ran, conn >>

Next ==
  \/ ReadHosts
  \/ MapRules
  \/ StartWorkers
  \/ SendJob
  \/ CloseJobs
  \/ ReadResult
  \/ ReadClosed
  \/ ReturnNil
  \/ ProcessExit
  \/ \E w \in Workers : Recv(w)
  \/ \E w \in Workers : Dial(w)
  \/ \E w \in Workers : Match(w)
  \/ \E w \in Workers : Run(w)
  \/ \E w \in Workers : Send(w)
  \/ \E w \in Workers : Close(w)
  \/ \E w \in Workers : WorkerDone(w)
  \/ WaitReturns
  \/ CloseResults

Spec == Init /\ [][Next]_vars

\* the earlier revision never closes the results channel
NextConnect ==
  \/ ReadHosts
  \/ MapRules
  \/ StartWorkers
  \/ SendJob
  \/ CloseJobs
  \/ ReadResult
  \/ ReturnNil
  \/ ProcessExit
  \/ \E w \in Workers : Recv(w)
  \/ \E w \in Workers : Dial(w)
  \/ \E w \in Workers : Match(w)
  \/ \E w \in Workers : Run(w)
  \/ \E w \in Workers : Send(w)
  \/ \E w \in Workers : Close(w)
  \/ \E w \in Workers : WorkerDone(w)
  \/ WaitReturns

SpecConnect == InitConnect /\ [][NextConnect]_vars

(***************************************************************************)
(* The selection of the commands for one host: the run with one host and   *)
(* one worker, from the point where Dial has returned the client, for more *)
(* configurations and identities than the whole run is explored with.      *)
(***************************************************************************)
MaxRules == 2

\* the identities Dial may return for the host
Identities == {DialClient(HostName(1), names, probe) : names \in Lookups, probe \in Descrs}

\* more cmdSets: a vendor in capitals with an os, a hostname, an address, a
\* list of models, a model and a version as parseSysDescr reports them
UpperSet ==
  [AnySet EXCEPT !.Vendor = << "CISCO" >>, !.OS = << "IOS" >>, !.Cmds = SeqCmds(<< "u1" >>)]
NameSet == [AnySet EXCEPT !.Hostname = << "sw1" >>, !.Cmds = SeqCmds(<< "h1" >>)]
AddrSet == [AnySet EXCEPT !.Addr = << "10.0.0.1" >>, !.Cmds = SeqCmds(<< "a1" >>)]
HPSet == [AnySet EXCEPT !.Vendor = << "hp" >>, !.Cmds = SeqCmds(<< "x1" >>)]
ModelsSet ==
  [AnySet EXCEPT !.Vendor = << "cisco" >>, !.Models = << << "c2960s" >>, << "c3650" >> >>,
                 !.Cmds = SeqCmds(<< "m1" >>)]
ProCurveSet ==
  [AnySet EXCEPT !.Models = << << "ProCurve", Sp, "J9145A", Sp, "Switch", Comma >> >>,
                 !.Cmds = SeqCmds(<< "p1" >>)]
ComwareSet ==
  [AnySet EXCEPT
     !.Version = << "Software", Sp, "Version", Sp, "7.1.070", Comma, Sp, "Release", Sp, "1309" >>,
     !.Cmds = SeqCmds(<< "v1" >>)]

SelectSets ==
  {GenericSet, CiscoSet, UpperSet, NameSet, AddrSet, HPSet, ModelsSet, ProCurveSet,
   ComwareSet}

\* the configurations: up to MaxRules cmdSets in their declaration order
RuleSets == UNION {[1..n -> SelectSets] : n \in 1..MaxRules}

InitSelect ==
  /\ variant = "configure"
  /\ pcMain = "read results"
  /\ mainErr = ""
  /\ hosts = << HostName(1) >>
  /\ cfg \in RuleSets
  /\ cfgCmds = MapCmds(cfg).cmds
  /\ next = 1
  /\ nread = 0
  /\ printed = [h \in AllHosts |-> << >>]
  /\ devices = << >>
  /\ devicesClosed = TRUE
  /\ results = << >>
  /\ resultsClosed = FALSE
  /\ wg = 1
  /\ \E client \in Identities :
       worker = << [IdleWorker EXCEPT !.pc = "match", !.host = HostName(1),
                                      !.client = client] >>
  /\ closer = "wait"
  /\ crashed = ""
  /\ exited = FALSE
  /\ dequeued = [h \in AllHosts |-> IF h = HostName(1) THEN 1 ELSE 0]
  /\ dialed = [h \in AllHosts |-> IF h = HostName(1) THEN 1 ELSE 0]
  /\ sent = [h \in AllHosts |-> 0]
  /\ ran = [h \in AllHosts |-> 0]
  /\ conn = [h \in AllHosts |-> IF h = HostName(1) THEN "open" ELSE "none"]
  /\ closes = 0
  /\ IdentIdle
  /\ SessIdle
  /\ Timeout = ConfigTimeout

NextSelect ==
  \/ \E w \in Workers : Match(w)
  \/ \E w \in Workers : Run(w)
  \/ \E w \in Workers : Send(w)
  \/ \E w \in Workers : Close(w)
  \/ \E w \in Workers : WorkerDone(w)
  \/ ReadResult
  \/ ReturnNil
  \/ ProcessExit
  \/ WaitReturns
  \/ CloseResults

SpecSelect == InitSelect /\ [][NextSelect]_vars

(***************************************************************************)
(* device.sysDescr and its goroutine getSysDescr, for one address          *)
(***************************************************************************)
MaxPhrases == 2

\* the address sysDescr is called with
IdentAddr == DialAddr(RemoteAddr(HostName(1)))

\* pieces of sysDescr.0 strings: the cues parseSysDescr looks for, and others
Phrases ==
  {<< "Cisco" >>, << "HP" >>, << "Hewlett", Sp, "Packard" >>, << "ProCurve" >>,
   << "Comware" >>, << "IOS" >>, << "IOS", Sp, "XR" >>, << "IOS", Hyphen, "XE" >>,
   << "NX", Hyphen, "OS" >>, << "NX", Sp, "OS" >>, << "NetApp" >>, << "C3650" >>,
   << "HP", Sp, "5130", Sp, "Switch" >>,
   << "Software", Sp, "Version", Sp, "7.1.070", Comma, Sp, "Release", Sp, "1309" >>}

RECURSIVE JoinPhrases(_)
JoinPhrases(ps) ==
  IF ps = << >> THEN Empty
  ELSE IF Len(ps) = 1 THEN ps[1]
  ELSE ps[1] \o << Sp >> \o JoinPhrases(Tail(ps))

\* a description with the cues of both vendors and of every operating system
DescrEveryCue ==
  << "HP", Sp, "Comware", Sp, "ProCurve", Sp, "Cisco", Sp, "NX", Hyphen, "OS", Sp,
     "IOS", Hyphen, "XE", Sp, "IOS", Sp, "XR" >>

\* the sysDescr.0 strings: those after the tests, the empty string, one with
\* every cue, and the texts of up to MaxPhrases phrases
Descriptions ==
  (Descrs \ {ProbeFailed})
    \cup {DescrEveryCue}
    \cup {JoinPhrases(ps) : ps \in UNION {[1..n -> Phrases] : n \in 0..MaxPhrases}}

\* the agents: no SNMP client, a Get that fails, or an answer
Agents ==
  {NoAgent, [client |-> TRUE, get |-> FALSE, descr |-> Empty]}
    \cup {[client |-> TRUE, get |-> TRUE, descr |-> d] : d \in Descriptions}

LookupAnswers ==
  {NoNames} \cup {[err |-> FALSE, names |-> ns] : ns \in Lookups}
    \cup {[err |-> FALSE, names |-> << << "sw1" >>, << "sw2" >> >>]}

\* what the probe of an agent yields for the identity
ProbeOf(agent) == IF agent.client /\ agent.get THEN agent.descr ELSE ProbeFailed
NamesOf(answer) == IF answer.err THEN << >> ELSE answer.names

InitIdent ==
  /\ variant = "configure"
  /\ RunIdle
  /\ snmp \in Agents
  /\ lookup \in LookupAnswers
  /\ pcSys = "idle"
  /\ pcGet = "idle"
  /\ pending = NoInfo
  /\ infoSends = 0
  /\ infoClosed = FALSE
  /\ hostname = Empty
  /\ m = NoInfo
  /\ SessIdle
  /\ Timeout = ConfigTimeout

runVars ==
  << variant, sessVars, mainVars, devices, devicesClosed, results, resultsClosed, wg, worker,
     closer, exited, histVars >>

\* info := make(chan map[string]string); go getSysDescr(addr, info)
GoGetSysDescr ==
  /\ pcSys = "idle"
  /\ pcSys' = "lookup"
  /\ pcGet' = "new client"
  /\ UNCHANGED << runVars, crashed, snmp, lookup, pending, infoSends, infoClosed,
                  hostname, m >>

\* names, err := net.LookupAddr(addr); hostname = names[0]
LookupAddr ==
  /\ pcSys = "lookup"
  /\ hostname' = IF ~lookup.err /\ Len(lookup.names) > 0 THEN lookup.names[1] ELSE Empty
  /\ pcSys' = "recv"
  /\ UNCHANGED << runVars, crashed, snmp, lookup, pcGet, pending, infoSends,
                  infoClosed, m >>

\* a getSysDescr that returns on a failed probe without sending
ReturnWithoutSend == "close"

\* on a failed probe getSysDescr sends the map of empty strings
AfterProbeFailure == "send"

\* client, err := snmp.NewClient(...)
NewClient ==
  /\ pcGet = "new client"
  /\ IF snmp.client
     THEN pcGet' = "get" /\ pending' = pending
     ELSE pcGet' = AfterProbeFailure /\ pending' = NoInfo
  /\ UNCHANGED << runVars, crashed, snmp, lookup, pcSys, infoSends, infoClosed,
                  hostname, m >>

\* res, err := client.Get(".1.3.6.1.2.1.1.1.0"), and the parse of the answer
Get ==
  /\ pcGet = "get"
  /\ IF snmp.get
     THEN pcGet' = "send" /\ pending' = parseSysDescr(snmp.descr)
     ELSE pcGet' = AfterProbeFailure /\ pending' = NoInfo
  /\ UNCHANGED << runVars, crashed, snmp, lookup, pcSys, infoSends, infoClosed,
                  hostname, m >>

\* m := <-info on the unbuffered channel, with getSysDescr at its send;
\* m["addr"] = addr; m["hostname"] = hostname.  A receive on the closed
\* channel yields the nil map, and the assignment to it panics.
RecvInfo ==
  /\ pcSys = "recv" /\ crashed = ""
  /\ IF infoClosed
     THEN /\ crashed' = "panic: assignment to entry in nil map"
          /\ UNCHANGED << pcSys, pcGet, infoSends, m >>
     ELSE /\ pcGet = "send"
          /\ m' = [pending EXCEPT !.addr = IdentAddr, !.hostname = hostname]
          /\ infoSends' = infoSends + 1
          /\ pcGet' = "close"
          /\ pcSys' = "done"
          /\ crashed' = crashed
  /\ UNCHANGED << runVars, snmp, lookup, pending, infoClosed, hostname >>

\* the deferred close(info)
CloseInfo ==
  /\ pcGet = "close"
  /\ infoClosed' = TRUE
  /\ pcGet' = "done"
  /\ UNCHANGED << runVars, crashed, snmp, lookup, pcSys, pending, infoSends,
                  hostname, m >>

NextIdent ==
  \/ GoGetSysDescr
  \/ LookupAddr
  \/ NewClient
  \/ Get
  \/ RecvInfo
  \/ CloseInfo

SpecIdent == InitIdent /\ [][NextIdent]_vars

(***************************************************************************)
(* Client.Run step by step: the session of one dialed host, the goroutine  *)
(* that waits for it and the timer, inside the iteration of one configure  *)
(* worker; the run is the one of the selection, with one host              *)
(***************************************************************************)
\* how the remote host may behave in a session:
\*   open   its answer to the request to open the session channel
\*   shell  its answer to the shell request
\*   stdin  whether the writes to its standard input succeed
\*   ends   how the session ends, as session.Wait() reports it
\* A "silent" host never answers the request, and a session that "never"
\* ends is over only when the connection is closed.
Remotes ==
  {[Cooperative EXCEPT !.open = a] : a \in {"refused", "silent"}}
    \cup {[Cooperative EXCEPT !.shell = a] : a \in {"refused", "silent"}}
    \cup {[Cooperative EXCEPT !.stdin = "broken"]}
    \cup {[Cooperative EXCEPT !.ends = e] :
            e \in {"nil", "exitError", "exitMissingError", "lost", "never"}}

\* the timeouts of a configuration file: none, or ten seconds
ConfigTimeouts == {0, ConfigTimeout}

\* one rule each: two commands for a vendor, one command for a hostname
SessionConfigs == {<< CiscoSet >>, << NameSet >>, << HPSet >>}

InitSession ==
  /\ variant = "configure"
  /\ pcMain = "read results"
  /\ mainErr = ""
  /\ hosts = << HostName(1) >>
  /\ cfg \in SessionConfigs
  /\ cfgCmds = MapCmds(cfg).cmds
  /\ next = 1
  /\ nread = 0
  /\ printed = [h \in AllHosts |-> << >>]
  /\ devices = << >>
  /\ devicesClosed = TRUE
  /\ results = << >>
  /\ resultsClosed = FALSE
  /\ wg = 1
  /\ \E client \in Identities :
       worker = << [IdleWorker EXCEPT !.pc = "match", !.host = HostName(1),
                                      !.client = client] >>
  /\ closer = "wait"
  /\ crashed = ""
  /\ exited = FALSE
  /\ dequeued = [h \in AllHosts |-> IF h = HostName(1) THEN 1 ELSE 0]
  /\ dialed = [h \in AllHosts |-> IF h = HostName(1) THEN 1 ELSE 0]
  /\ sent = [h \in AllHosts |-> 0]
  /\ ran = [h \in AllHosts |-> 0]
  /\ conn = [h \in AllHosts |-> IF h = HostName(1) THEN "open" ELSE "none"]
  /\ closes = 0
  /\ IdentIdle
  /\ Timeout \in ConfigTimeouts
  /\ remote \in Remotes
  /\ pcRun = "idle"
  /\ written = 0
  /\ session = "none"
  /\ sessionCloses = 0
  /\ pcHelper = "none"
  /\ waitErr = ""
  /\ wait = << >>
  /\ timer = FALSE
  /\ runRet = NoReturn

\* what no step of Client.Run changes
outerVars ==
  << variant, identVars, mainVars, devices, devicesClosed, results, resultsClosed, wg,
     closer, crashed, exited, dequeued, dialed, sent, conn, closes, Timeout, remote >>

\* out, err := client.Run(cmds...): the call
RunCall(w) ==
  /\ Running /\ w \in Workers /\ worker[w].pc = "run" /\ pcRun = "idle"
  /\ pcRun' = "new session"
  /\ ran' = [ran EXCEPT ![worker[w].host] = @ + 1]
  /\ UNCHANGED << outerVars, worker, written, session, sessionCloses, pcHelper, waitErr,
                  wait, timer, runRet >>

\* the worker's result for what Client.Run returned
AfterRun(w, r) ==
  IF r.err # ""
  THEN [worker EXCEPT
          ![w].pc = "send",
          ![w].ret = ReturnsAfterFailure(variant),
          ![w].res = [job |-> worker[w].host, host |-> Str(worker[w].host),
                      out |-> << >>, err |-> RunErr(variant, r.err)]]
  ELSE [worker EXCEPT
          ![w].pc = "send",
          ![w].res = [job |-> worker[w].host, host |-> ClientString(worker[w].client),
                      out |-> r.out, err |-> ""]]

\* return r: the deferred session.Close() runs if the session was created
RunReturn(w, r) ==
  /\ runRet' = r
  /\ pcRun' = "returned"
  /\ session' = IF session = "open" THEN "closed" ELSE session
  /\ sessionCloses' = IF session = "open" THEN sessionCloses + 1 ELSE sessionCloses
  /\ worker' = AfterRun(w, r)

Failed(err) == [out |-> << >>, err |-> err]

\* session, err := c.Client.NewSession(), defer session.Close(), pipeIO:
\* the call waits for the remote's answer; the pipes of a new session are
\* always granted
NewSession(w) ==
  /\ Running /\ w \in Workers /\ pcRun = "new session"
  /\ remote.open # "silent"
  /\ IF remote.open = "ok"
     THEN /\ session' = "open"
          /\ pcRun' = "shell"
          /\ UNCHANGED << worker, sessionCloses, runRet >>
     ELSE RunReturn(w, Failed("ssh: rejected"))
  /\ UNCHANGED << outerVars, ran, written, pcHelper, waitErr, wait, timer >>

\* session.Shell(): the call waits for the remote's answer
Shell(w) ==
  /\ Running /\ w \in Workers /\ pcRun = "shell"
  /\ remote.shell # "silent"
  /\ IF remote.shell = "ok"
     THEN /\ pcRun' = "write"
          /\ UNCHANGED << worker, session, sessionCloses, runRet >>
     ELSE RunReturn(w, Failed("ssh: could not start shell"))
  /\ UNCHANGED << outerVars, ran, written, pcHelper, waitErr, wait, timer >>

\* io.WriteString(stdin, cmd + "\n") for the next command
Write(w) ==
  /\ Running /\ w \in Workers /\ pcRun = "write"
  /\ written < Len(worker[w].cmds)
  /\ IF remote.stdin = "ok"
     THEN /\ written' = written + 1
          /\ UNCHANGED << worker, session, sessionCloses, runRet, pcRun >>
     ELSE /\ RunReturn(w, Failed("EOF"))
          /\ written' = written
  /\ UNCHANGED << outerVars, ran, pcHelper, waitErr, wait, timer >>

\* time.After(Timeout): a timer of no duration has fired at once
FiresAtOnce(d) == d = 0

\* wait := make(chan error, 1); go func() { wait <- session.Wait() }(), and
\* the select begins
GoWait(w) ==
  /\ Running /\ w \in Workers /\ pcRun = "write"
  /\ written = Len(worker[w].cmds)
  /\ pcHelper' = "wait"
  /\ pcRun' = "select"
  /\ timer' = FiresAtOnce(Timeout)
  /\ UNCHANGED << outerVars, ran, worker, written, session, sessionCloses, waitErr, wait,
                  runRet >>

\* session.Wait() returns when the remote ends the session, and with an
\* error when the connection has been closed
HelperWait ==
  /\ Running /\ pcHelper = "wait"
  /\ remote.ends # "never" \/ conn[HostName(1)] = "closed"
  /\ waitErr' = IF remote.ends = "never" THEN "lost" ELSE remote.ends
  /\ pcHelper' = "send"
  /\ UNCHANGED << outerVars, ran, worker, pcRun, written, session, sessionCloses, wait,
                  timer, runRet >>

\* a send on a channel without a buffer completes only with a receiver
UnbufferedCanSend(q, pc) == pc = "select"

\* the wait channel has room for one error
HelperCanSend(q, pc) == Len(q) < 1

\* wait <- err, and the goroutine ends
HelperSend ==
  /\ Running /\ pcHelper = "send"
  /\ HelperCanSend(wait, pcRun)
  /\ wait' = Append(wait, waitErr)
  /\ pcHelper' = "done"
  /\ UNCHANGED << outerVars, ran, worker, pcRun, written, session, sessionCloses, waitErr,
                  timer, runRet >>

\* the timer of time.After(Timeout) fires
TimerFires ==
  /\ Running /\ pcRun = "select" /\ ~timer
  /\ timer' = TRUE
  /\ UNCHANGED << outerVars, ran, worker, pcRun, written, session, sessionCloses, pcHelper,
                  waitErr, wait, runRet >>

\* the errors of session.Wait() after which Client.Run reads the output
ReadsOutput(err) == err \in {"nil", "exitError", "exitMissingError"}

\* case err := <-wait
SelectWait(w) ==
  /\ Running /\ w \in Workers /\ pcRun = "select"
  /\ wait # << >>
  /\ wait' = Tail(wait)
  /\ IF ReadsOutput(Head(wait))
     THEN /\ pcRun' = "read all"
          /\ UNCHANGED << worker, session, sessionCloses, runRet >>
     ELSE RunReturn(w, Failed(Head(wait)))
  /\ UNCHANGED << outerVars, ran, written, pcHelper, waitErr, timer >>

\* b, err := ioutil.ReadAll(io.MultiReader(stdout, stderr)); return b, nil
ReadAll(w) ==
  /\ Running /\ w \in Workers /\ pcRun = "read all"
  /\ RunReturn(w, [out |-> worker[w].cmds, err |-> ""])
  /\ UNCHANGED << outerVars, ran, written, pcHelper, waitErr, wait, timer >>

\* case <-time.After(Timeout)
SelectTimeout(w) ==
  /\ Running /\ w \in Workers /\ pcRun = "select"
  /\ timer
  /\ RunReturn(w, Failed("session timed out"))
  /\ UNCHANGED << outerVars, ran, written, pcHelper, waitErr, wait, timer >>

\* the steps of a worker that has selected the commands
SessionStep(w) ==
  \/ RunCall(w)
  \/ NewSession(w)
  \/ Shell(w)
  \/ Write(w)
  \/ GoWait(w)
  \/ SelectWait(w)
  \/ ReadAll(w)
  \/ SelectTimeout(w)
  \/ Send(w)
  \/ Close(w)
  \/ WorkerDone(w)

NextSession ==
  \/ \E w \in Workers : Match(w)
  \/ \E w \in Workers : RunCall(w)
  \/ \E w \in Workers : NewSession(w)
  \/ \E w \in Workers : Shell(w)
  \/ \E w \in Workers : Write(w)
  \/ \E w \in Workers : GoWait(w)
  \/ \E w \in Workers : SelectWait(w)
  \/ \E w \in Workers : ReadAll(w)
  \/ \E w \in Workers : SelectTimeout(w)
  \/ \E w \in Workers : Send(w)
  \/ \E w \in Workers : Close(w)
  \/ \E w \in Workers : WorkerDone(w)
  \/ HelperWait
  \/ HelperSend
  \/ TimerFires
  \/ ReadResult
  \/ ReturnNil
  \/ ProcessExit
  \/ WaitReturns
  \/ CloseResults

SpecSession == InitSession /\ [][NextSession]_vars

\* every goroutine that can take a step takes one, and the timer fires
FairSession ==
  /\ WF_vars(\E w \in Workers : SessionStep(w))
  /\ WF_vars(HelperWait \/ HelperSend)
  /\ WF_vars(TimerFires)
  /\ WF_vars(ReadResult \/ ReturnNil \/ ProcessExit)
  /\ WF_vars(WaitReturns \/ CloseResults)

SpecSessionFair == InitSession /\ [][NextSession]_vars /\ FairSession

(***************************************************************************)
(* config.MapCmds as a function of the configuration: the step of runCfg   *)
(* that maps the rules, for the cmdSets a configuration file can hold      *)
(***************************************************************************)
\* a cmds mapping: the commands by their index
MapOfCmds(items) == [kind |-> "map", items |-> items]

\* the YAML merge key "<<": the mapping of the alias with the entries of the
\* rule's own mapping put over it
Merge(alias, own) ==
  [i \in DOMAIN alias \cup DOMAIN own |-> IF i \in DOMAIN own THEN own[i] ELSE alias[i]]

\* cisco_cmds of the aliases: 0: show lldp neighbors, 1: quit
AliasCmds == (0 :> "show lldp neighbors") @@ (1 :> "quit")

\* the cmds values: sequences, mappings keyed from 0 without and with a gap,
\* and the alias with some indices put over it
CmdValues ==
  {SeqCmds(<< >>), SeqCmds(<< "c1" >>), SeqCmds(<< "c2", "c1" >>),
   MapOfCmds(AliasCmds),
   MapOfCmds(Merge(AliasCmds, (1 :> "write mem") @@ (2 :> "quit"))),
   MapOfCmds(Merge(AliasCmds, (3 :> "reload")))}

\* the cmdSets: any vendor or cisco, no models or two
MapInputSets ==
  {[AnySet EXCEPT !.Vendor = v, !.Models = ms, !.Cmds = c] :
     v \in {Empty, << "cisco" >>},
     ms \in {<< >>, << << "c2960s" >>, << "c3650" >> >>},
     c \in CmdValues}

MapInputs == UNION {[1..n -> MapInputSets] : n \in 1..MaxRules}

\* runCfg has read the hosts and is about to map the rules of cfg
InitMap ==
  /\ variant = "configure"
  /\ pcMain = "map"
  /\ mainErr = ""
  /\ hosts = << HostName(1) >>
  /\ cfg \in MapInputs
  /\ cfgCmds = NoCmds
  /\ next = 0
  /\ nread = 0
  /\ printed = [h \in AllHosts |-> << >>]
  /\ devices = << >>
  /\ devicesClosed = FALSE
  /\ results = << >>
  /\ resultsClosed = FALSE
  /\ wg = 0
  /\ worker = << >>
  /\ closer = "none"
  /\ crashed = ""
  /\ exited = FALSE
  /\ dequeued = [h \in AllHosts |-> 0]
  /\ dialed = [h \in AllHosts |-> 0]
  /\ sent = [h \in AllHosts |-> 0]
  /\ ran = [h \in AllHosts |-> 0]
  /\ conn = [h \in AllHosts |-> "none"]
  /\ closes = 0
  /\ IdentIdle
  /\ SessIdle
  /\ Timeout = ConfigTimeout

\* config.MapCmds(cfg) and len(cfgCmds) == 0, for the configuration read
MapGiven ==
  /\ Running /\ pcMain = "map"
  /\ IF MapRulesErr(cfg) # ""
     THEN Return(MapRulesErr(cfg)) /\ cfgCmds' = cfgCmds
     ELSE /\ cfgCmds' = MapCmds(cfg).cmds
          /\ pcMain' = "start workers"
          /\ mainErr' = mainErr
  /\ UNCHANGED << variant, identVars, sessVars, hosts, cfg, next, nread, printed, devices,
                  devicesClosed, results, resultsClosed, wg, worker, closer, crashed,
                  exited, histVars >>

NextMap == MapGiven

SpecMap == InitMap /\ [][NextMap]_vars

TypeOK ==
  /\ variant \in {"configure", "connect"}
  /\ pcMain \in {"start", "map", "start workers", "send jobs", "read results", "returned"}
  /\ next \in 0..Len(hosts)
  /\ nread \in 0..Len(hosts)
  /\ wg \in 0..Len(worker)
  /\ closer \in {"none", "wait", "close", "done"}
  /\ \A w \in Workers :
       worker[w].pc \in {"recv", "dial", "match", "run", "send", "close", "return", "done"}

(***************************************************************************)
(* Properties of the run                                                   *)
(***************************************************************************)
HostSet == {hosts[k] : k \in 1..Len(hosts)}

\* the run is over: the process has ended, by returning or by a panic
RunOver == exited \/ crashed # ""

\* workers were started, at least one of them
Dispatched == closer # "none" /\ Len(worker) >= 1

AllWorkersDone == \A w \in Workers : worker[w].pc = "done"

\* C1: with the configure workers, every host entry is received by exactly
\* one worker, gets exactly one result sent, and has exactly one result
\* read by the aggregator: at the end of a run no host is lost or doubled.
ExactlyOneResultPerHost ==
  (RunOver /\ Dispatched) =>
    \A h \in HostSet : dequeued[h] = 1 /\ sent[h] = 1 /\ Len(printed[h]) = 1

\* C2: the results channel is closed at most once, exactly once by the time
\* the waiting goroutine is done, only when the WaitGroup counter is zero
\* and every worker has left, and no send or close ever hits the closed
\* channel.
ClosedOnceAfterWorkers ==
  /\ closes <= 1
  /\ resultsClosed <=> closes = 1
  /\ closer = "done" => closes = 1
  /\ resultsClosed => wg = 0 /\ AllWorkersDone
  /\ crashed \notin {"panic: send on closed channel", "panic: close of closed channel"}

\* the channel is closed after two workers reported a dial failure and a configured host
ClosedOnceWitness ==
  /\ resultsClosed /\ Len(worker) >= 2
  /\ \E h \in HostSet : sent[h] = 1 /\ conn[h] = "closed"
  /\ \E h \in HostSet : sent[h] = 1 /\ conn[h] = "none"

\* C3: a worker leaves only when the work queue is closed and empty: a
\* host that failed never takes a worker away.
WorkersLeaveOnlyAtEnd ==
  \A w \in Workers :
    worker[w].pc \in {"return", "done"} => devices = << >> /\ devicesClosed

\* the line that the outcome of host h alone determines is among these
OwnLine(h, line) ==
  /\ line.host = Str(h) \/ (Len(line.host) >= 4 /\ line.host[4] = h)
  /\ conn[h] = "none" =>
       line = [stream |-> "stderr", host |-> Str(h), text |-> << DialErr(variant) >>]
  /\ (conn[h] # "none" /\ ran[h] = 0) =>
       line = [stream |-> "stderr", host |-> Str(h), text |-> << NoCmdsErr(variant) >>]
  /\ ran[h] = 1 =>
       \/ line = [stream |-> "stderr", host |-> Str(h),
                  text |-> << RunErr(variant, "session timed out") >>]
       \/ line.stream = "stdout" /\ \E k \in DOMAIN cfgCmds : line.text = cfgCmds[k]

\* C4: the result of a host depends on its own outcome only: whatever the
\* other hosts do, at the end of a run of two or more hosts every host has
\* the one result its own dial, match and run determine.
ResultOfOwnOutcomeOnly ==
  (RunOver /\ Dispatched /\ Len(hosts) >= 2) =>
    \A h \in HostSet : Len(printed[h]) = 1 /\ OwnLine(h, printed[h][1])

\* C5: a run that has started workers ends with runCfg returning nil after
\* one line or block was written for every host.
ReturnsAfterEveryHost ==
  (RunOver /\ Dispatched) =>
    /\ pcMain = "returned" /\ mainErr = ""
    /\ nread = Len(hosts)
    /\ \A h \in HostSet : printed[h] # << >>

\* C6: neither channel ever holds more than there are hosts, the send of a
\* host to the workers finds room in the queue, and a worker's send of a
\* result finds room in the results channel.
SendsNeverBlock ==
  /\ Len(devices) <= Len(hosts)
  /\ Len(results) <= Len(hosts)
  /\ (pcMain = "send jobs" /\ next < Len(hosts)) => Len(devices) < DevicesCap(Len(hosts))
  /\ \A w \in Workers :
       worker[w].pc = "send" => Len(results) < ResultsCap(Len(hosts))

\* every host's result is buffered while the aggregator has read none,
\* with fewer workers than hosts
SendsNeverBlockWitness ==
  /\ Len(hosts) = MaxHosts /\ Len(worker) < Len(hosts)
  /\ Len(results) = Len(hosts) /\ nread = 0

\* C7: runCfg returns only after every worker has left and the results
\* channel has been closed.
ReturnsAfterWorkers ==
  (pcMain = "returned" /\ closer # "none") => resultsClosed /\ AllWorkersDone

\* C8: runCfg returns an error only for an empty host list or an empty
\* rule set.
ErrorOnlyForTwoFatal ==
  (pcMain = "returned" /\ mainErr # "") =>
    mainErr \in {"run: no hosts to configure", "run: no configuration commands to run"}

SetupErrors ==
  {"run: failed to read hosts", "run: error scanning hosts",
   "run: no hosts to configure", "run: could not map commands",
   "run: no configuration commands to run"}

\* C8, amended: runCfg returns an error only before any worker is started
\* (hosts file unreadable or not scannable, empty host list, MapCmds
\* failing, empty rule set) or on finding the results channel closed with
\* results missing, which takes a worker count of zero; with a worker
\* started it returns nil whatever the outcomes of the hosts.
ErrorOnlyBeforeDispatchOrNoWorkers ==
  /\ (pcMain = "returned" /\ mainErr # "") =>
       \/ mainErr \in SetupErrors /\ closer = "none" /\ next = 0
       \/ mainErr = ClosedErr(variant) /\ closer # "none" /\ Len(worker) = 0
  /\ (pcMain = "returned" /\ Len(worker) >= 1) => mainErr = ""

\* runCfg has returned nil after writing an error line for one host and an
\* output block for another
NilAfterHostFailureWitness ==
  /\ pcMain = "returned" /\ mainErr = "" /\ Len(worker) >= 1
  /\ \E h \in HostSet : Len(printed[h]) = 1 /\ printed[h][1].stream = "stderr"
  /\ \E h \in HostSet : Len(printed[h]) = 1 /\ printed[h][1].stream = "stdout"

\* C9: with an empty host list (blank lines dropped) or no mapped rule,
\* runCfg has returned an error and nothing was dispatched: no worker, no
\* host in the queue, no dial, no session.
NoDispatchOnFatal ==
  (\/ pcMain # "start" /\ hosts = << >>
   \/ pcMain \notin {"start", "map"} /\ DOMAIN cfgCmds = {}) =>
    /\ pcMain = "returned" /\ mainErr # ""
    /\ Len(worker) = 0 /\ closer = "none" /\ wg = 0
    /\ next = 0 /\ devices = << >>
    /\ \A h \in AllHosts : dequeued[h] = 0 /\ dialed[h] = 0 /\ ran[h] = 0 /\ conn[h] = "none"

\* a host list was read and the rules mapped to nothing
NoDispatchWitness ==
  /\ hosts # << >> /\ mainErr = "run: no configuration commands to run"
  /\ exited

\* C10: no host is dialled twice and no host has Client.Run called twice.
AtMostOnce == \A h \in AllHosts : dialed[h] <= 1 /\ ran[h] <= 1

\* every worker has left after one host failed to dial and another had its
\* session time out
AtMostOnceWitness ==
  /\ Len(worker) >= 1 /\ AllWorkersDone
  /\ \E h \in HostSet : dialed[h] = 1 /\ conn[h] = "none" /\ sent[h] = 1
  /\ \E h \in HostSet :
       /\ ran[h] = 1 /\ Len(printed[h]) = 1
       /\ printed[h][1].text = << RunErr(variant, "session timed out") >>

(***************************************************************************)
(* Properties of the selection of commands                                 *)
(***************************************************************************)
\* a field of a rule agrees with the identity: it is not set, or the
\* identity has it and the two are equal ignoring case
FieldOk(rv, iv) == rv = Empty \/ (iv # Empty /\ ToLower(rv) = ToLower(iv))

ModelOk(R, I) ==
  R.Models = << >>
    \/ (I.model # Empty /\ \E i \in 1..Len(R.Models) : ToLower(R.Models[i]) = ToLower(I.model))

\* the rule matches the identity, field by field
RuleMatches(R, I) ==
  /\ FieldOk(R.Addr, I.addr)
  /\ FieldOk(R.Hostname, I.hostname)
  /\ FieldOk(R.Vendor, I.vendor)
  /\ FieldOk(R.OS, I.os)
  /\ FieldOk(R.Version, I.version)
  /\ ModelOk(R, I)

FieldSpecific(R) ==
  \/ R.Addr # Empty \/ R.Hostname # Empty \/ R.Vendor # Empty
  \/ R.OS # Empty \/ R.Version # Empty \/ R.Models # << >>

RuleCmds(R) == R.Cmds.items

\* the worker has selected worker[w].cmds, or has found no command to run
Picked(w) == worker[w].pc = "run"
PickedNone(w) ==
  worker[w].pc = "send" /\ conn[worker[w].host] = "open" /\ ran[worker[w].host] = 0
MatchPanic == crashed = "panic: index out of range"

\* matching never panics, and the worker ends up with the commands of R
\* exactly when R matches the identity of its client
SelectsIffMatches(R) ==
  /\ ~MatchPanic
  /\ \A w \in Workers :
       /\ Picked(w) => worker[w].cmds = RuleCmds(R) /\ RuleMatches(R, worker[w].client)
       /\ PickedNone(w) => ~RuleMatches(R, worker[w].client)

\* C11: with a single field-specific rule R in the rule set, the matching
\* loop selects R's commands exactly when every field R sets is present in
\* the identity and equal to it ignoring case.
SingleRuleSelectsIffEqual ==
  (Len(cfg) = 1 /\ FieldSpecific(cfg[1]) /\ Len(cfg[1].Models) <= 1) =>
    /\ ~MatchPanic
    /\ \A w \in Workers :
         /\ Picked(w) =>
              worker[w].cmds = RuleCmds(cfg[1]) /\ RuleMatches(cfg[1], worker[w].client)
         /\ PickedNone(w) => ~RuleMatches(cfg[1], worker[w].client)

Rules == 1..Len(cfg)
MatchingRules(I) == {i \in Rules : RuleMatches(cfg[i], I)}
LastMatching(I) == CHOOSE i \in MatchingRules(I) : \A j \in MatchingRules(I) : j <= i

\* C12: when several different field-specific rules match the identity, the
\* commands selected are those of the last matching rule in the order of
\* declaration (so the selection is a function of rule set and identity).
LastMatchWins ==
  (/\ \A i \in Rules : FieldSpecific(cfg[i])
   /\ \A i, j \in Rules : i # j => cfg[i] # cfg[j]) =>
    \A w \in Workers :
      (Picked(w) /\ Cardinality(MatchingRules(worker[w].client)) >= 2) =>
        worker[w].cmds = RuleCmds(cfg[LastMatching(worker[w].client)])

GenericRules == {i \in Rules : ~FieldSpecific(cfg[i])}
NoSpecificMatch(I) == \A i \in Rules : FieldSpecific(cfg[i]) => ~RuleMatches(cfg[i], I)

\* C13: with one generic rule in the rule set, matching never fails, and a
\* host that no field-specific rule matches gets the generic rule's commands
\* (it is never left without commands).
GenericFallback ==
  Cardinality(GenericRules) = 1 =>
    /\ ~MatchPanic
    /\ \A w \in Workers :
         NoSpecificMatch(worker[w].client) =>
           /\ ~PickedNone(w)
           /\ Picked(w) => \E i \in GenericRules : worker[w].cmds = RuleCmds(cfg[i])

\* C14: with the generic rule A and the vendor-cisco rule B, a cisco device
\* gets B's commands when B is declared after A and A's commands when A is
\* declared after B.
GenericAndSpecificByOrder ==
  cfg \in {<< GenericSet, CiscoSet >>, << CiscoSet, GenericSet >>} =>
    /\ ~MatchPanic
    /\ \A w \in Workers :
         (Picked(w) /\ ToLower(worker[w].client.vendor) = << "cisco" >>) =>
           worker[w].cmds = RuleCmds(cfg[2])

\* C15: a host for which no command was selected is reported with an error:
\* its result carries an error, and no line is written to stdout for a host
\* on which nothing was run.
NoMatchIsReportedAsError ==
  /\ \A w \in Workers : PickedNone(w) => worker[w].res.err # ""
  /\ \A h \in AllHosts : \A i \in 1..Len(printed[h]) :
       printed[h][i].stream = "stdout" => ran[h] >= 1

\* C16: a rule with a list of models is selected exactly for the identities
\* whose model is one of the list, ignoring case, and whose other fields match.
ModelsRuleSelectsListed ==
  (Len(cfg) = 1 /\ Len(cfg[1].Models) >= 1) => SelectsIffMatches(cfg[1])

\* a value of the rule holds a comma or a colon
Separated(s) == \E i \in 1..Len(s) : s[i] \in {Comma, Colon}
HasSeparator(R) ==
  \/ Separated(R.Addr) \/ Separated(R.Hostname) \/ Separated(R.Vendor)
  \/ Separated(R.OS) \/ Separated(R.Version)
  \/ \E i \in 1..Len(R.Models) : Separated(R.Models[i])

\* C17: a rule with a value that holds a comma or a colon is selected exactly
\* for the identities with that whole value, and matching never fails on it.
SeparatorValueMatchesWhole ==
  (Len(cfg) = 1 /\ HasSeparator(cfg[1])) => SelectsIffMatches(cfg[1])

(***************************************************************************)
(* Properties of the identification of a device                            *)
(***************************************************************************)
InfoKeys == {"addr", "hostname", "vendor", "os", "model", "version"}
ProbeOver == pcGet \in {"send", "close", "done"}
Probed == snmp.client /\ snmp.get

\* C18: getSysDescr sends exactly one map on info and then closes it, on
\* every path; after a failed probe the map holds empty strings; sysDescr
\* receives that map and returns it with the address and the looked-up name,
\* the name being empty when the lookup failed.
IdentifierAlwaysAnswers ==
  /\ crashed # "panic: assignment to entry in nil map"
  /\ infoSends <= 1
  /\ infoClosed => infoSends = 1
  /\ pcGet = "done" => infoClosed
  /\ (ProbeOver /\ ~Probed) => pending = NoInfo
  /\ pcSys = "done" =>
       /\ infoSends = 1
       /\ m = sysDescr(IdentAddr, NamesOf(lookup), ProbeOf(snmp))
       /\ m.addr = IdentAddr
       /\ m.hostname = (IF NamesOf(lookup) = << >> THEN Empty ELSE lookup.names[1])
       /\ \A k \in {"vendor", "os", "model", "version"} : m[k] = pending[k]

\* the probe and the reverse lookup both failed, and sysDescr has returned
IdentifierAnswersWitness ==
  /\ ~snmp.client /\ lookup.err
  /\ pcSys = "done" /\ pcGet = "done" /\ infoClosed
  /\ m = [NoInfo EXCEPT !.addr = IdentAddr]

\* C19: parseSysDescr returns, for every string, a map with exactly the six
\* keys addr, hostname, vendor, os, model and version, each holding a string.
ParseIsTotal ==
  (ProbeOver /\ Probed) =>
    /\ pending = parseSysDescr(snmp.descr)
    /\ DOMAIN pending = InfoKeys
    /\ \A k \in InfoKeys : DOMAIN pending[k] = 1..Len(pending[k])

\* the text of another vendor was parsed into the six empty fields
ParseIsTotalWitness ==
  /\ Probed /\ snmp.descr = DescrUnknown /\ pcGet = "done"
  /\ \A k \in InfoKeys : pending[k] = Empty

\* the description holds one of the vendor cues
HasCue(d) ==
  \/ Contains(d, << "Cisco" >>) \/ Contains(d, << "Hewlett", Sp, "Packard" >>)
  \/ Contains(d, << "HP" >>) \/ Contains(d, << "ProCurve" >>)

\* C20: a parsed identity without vendor has no os, model or version; a
\* description without a vendor cue yields no field at all; and the vendor is
\* "", "CISCO" or "HP".
NoVendorNoFields ==
  (ProbeOver /\ Probed) =>
    /\ pending.vendor \in {Empty, << "CISCO" >>, << "HP" >>}
    /\ pending.vendor = Empty =>
         pending.os = Empty /\ pending.model = Empty /\ pending.version = Empty
    /\ ~HasCue(snmp.descr) => pending = NoInfo

\* a description that names an operating system and a model but no vendor
NoVendorWitness ==
  /\ Probed /\ snmp.descr = << "IOS", Sp, "XR", Sp, "C3650" >>
  /\ pcGet = "send" /\ pending = NoInfo

(***************************************************************************)
(* Properties of the session                                               *)
(***************************************************************************)
\* Client.Run has reached its select: the session runs and the timer is set
Selecting == pcHelper # "none"
TimedOut == Failed("session timed out")

\* C21: Client.Run never blocks for good: once it is called it returns,
\* whatever the remote host does, and for a session that never ends it
\* returns the error "session timed out" and no output.
RunAlwaysReturns ==
  /\ (pcRun # "idle") ~> (pcRun = "returned")
  /\ [](pcRun = "returned" /\ Selecting /\ remote.ends = "never" => runRet = TimedOut)

\* the worker is done with the host it was given
IterationOver(w) == worker[w].pc \in {"recv", "return", "done"}

FailureShapes == {"exitError", "exitMissingError", "never"}

\* C23: when the session ends with an exit status, ends with no status or
\* times out, Client.Run returns an error and no output, never a success;
\* and Client.Run is not called again for the host.
FailuresAreErrors ==
  /\ pcRun = "returned" /\ Selecting /\ remote.ends \in FailureShapes
       => runRet.err # "" /\ runRet.out = << >>
  /\ \A h \in AllHosts : ran[h] <= 1

(***************************************************************************)
(* Properties of the shared and the per-host state                         *)
(***************************************************************************)
\* the workers have been started
Dispatching == closer # "none"

\* the worker is between its receive of a host and the end of the iteration
Holds(w, h) ==
  worker[w].host = h /\ worker[w].pc \in {"dial", "match", "run", "send", "close"}

\* C24: once the workers are started no step changes the rule map, the
\* configuration or device.Timeout; a host is held by one worker at a time,
\* and its connection changes only in a step of the worker that holds it.
SharedStateFrozen ==
  /\ [][Dispatching => cfgCmds' = cfgCmds /\ cfg' = cfg /\ Timeout' = Timeout]_vars
  /\ [][\A h \in AllHosts :
          conn'[h] # conn[h] => \E w \in Workers : Holds(w, h)]_vars
  /\ [](\A w1, w2 \in Workers : \A h \in AllHosts :
          Holds(w1, h) /\ Holds(w2, h) => w1 = w2)

\* two workers hold two hosts at once, both with an open connection
SharedStateFrozenWitness ==
  /\ Dispatching
  /\ cfgCmds # NoCmds
  /\ \E w1, w2 \in Workers :
       /\ w1 # w2
       /\ worker[w1].pc = "run" /\ worker[w2].pc = "run"
       /\ conn[worker[w1].host] = "open" /\ conn[worker[w2].host] = "open"

(***************************************************************************)
(* Properties of the rule map                                              *)
(***************************************************************************)
\* the rules have been mapped without an error
Mapped == pcMain = "start workers"

\* the commands of a cmds value by ascending index
InOrder(c) ==
  IF c.kind = "seq" THEN c.items
  ELSE [i \in 1..Cardinality(DOMAIN c.items) |-> c.items[i - 1]]

\* the keys of a rule as they are stored
StoredKeys(set) == {StoreKey(SetKeys(set)[i]) : i \in 1..Len(SetKeys(set))}
WithoutModels(set) == [set EXCEPT !.Models = << >>]

\* no other rule of the configuration is stored under a key of rule k
OwnKeys(k) ==
  \A j \in DOMAIN cfg : j # k => StoredKeys(cfg[j]) \cap StoredKeys(cfg[k]) = {}

\* C25: for a rule whose cmds is a sequence, or a mapping keyed 0..n-1 (as
\* the merge of an alias with some indices put over it), the list stored
\* under each key of the rule is its commands by ascending index; a rule
\* with models has one key per model, none of them the key of the rule
\* without models.
MapKeepsOrder ==
  Mapped =>
    \A k \in DOMAIN cfg :
      /\ OwnKeys(k) /\ InOrder(cfg[k].Cmds) # << >>
           => \A key \in StoredKeys(cfg[k]) :
                key \in DOMAIN cfgCmds /\ cfgCmds[key] = InOrder(cfg[k].Cmds)
      /\ Len(cfg[k].Models) > 0
           => /\ Cardinality(StoredKeys(cfg[k])) = Len(cfg[k].Models)
              /\ StoredKeys(cfg[k]) \cap StoredKeys(WithoutModels(cfg[k])) = {}

\* the configuration of the aliases: the cisco rule, and the same rule for
\* a model with index 1 put over and index 2 added
MapKeepsOrderWitness ==
  /\ Mapped
  /\ Len(cfg) = 2
  /\ cfg[1].Cmds.kind = "map" /\ cfg[1].Models = << >>
  /\ cfg[2].Cmds.kind = "map" /\ Len(cfg[2].Models) = 2
  /\ cfg[1].Vendor = << "cisco" >> /\ cfg[2].Vendor = << "cisco" >>
  /\ \A key \in StoredKeys(cfg[2]) :
       key \in DOMAIN cfgCmds
         /\ cfgCmds[key] = << "show lldp neighbors", "write mem", "quit" >>
  /\ \A key \in StoredKeys(cfg[1]) :
       key \in DOMAIN cfgCmds /\ cfgCmds[key] = << "show lldp neighbors", "quit" >>

\* the vendor and the operating system by the precedence of the cues
VendorByCue(d) ==
  IF Contains(d, << "Cisco" >>) THEN << "CISCO" >>
  ELSE IF HasCue(d) THEN << "HP" >>
  ELSE Empty

OSByCue(d) ==
  IF VendorByCue(d) = << "CISCO" >>
  THEN IF Contains(d, << "IOS", Sp, "XR" >>) \/ Contains(d, << "IOS", Hyphen, "XR" >>)
         THEN << "IOS", Sp, "XR" >>
       ELSE IF Contains(d, << "IOS", Sp, "XE" >>) \/ Contains(d, << "IOS", Hyphen, "XE" >>)
         THEN << "IOS", Sp, "XE" >>
       ELSE IF Contains(d, << "IOS" >>) THEN << "IOS" >>
       ELSE IF Contains(d, << "NX", Sp, "OS" >>) \/ Contains(d, << "NX", Hyphen, "OS" >>)
         THEN << "NX", Hyphen, "OS" >>
       ELSE Empty
  ELSE IF VendorByCue(d) = << "HP" >>
  THEN IF Contains(d, << "Comware" >>) THEN << "Comware" >>
       ELSE IF Contains(d, << "ProCurve" >>) THEN << "ProCurve" >>
       ELSE Empty
  ELSE Empty

CiscoSystems == {<< "IOS", Sp, "XR" >>, << "IOS", Sp, "XE" >>, << "IOS" >>, << "NX", Hyphen, "OS" >>}
HPSystems == {<< "Comware" >>, << "ProCurve" >>}

\* C26: the Cisco cue wins over the HP cues; for CISCO the os is IOS XR
\* before IOS XE before IOS before NX-OS, for HP Comware before ProCurve,
\* else empty; and the os of one vendor never comes with the other vendor.
CuePrecedence ==
  (ProbeOver /\ Probed) =>
    /\ pending.vendor = VendorByCue(snmp.descr)
    /\ pending.os = OSByCue(snmp.descr)
    /\ pending.vendor = << "CISCO" >> => pending.os \notin HPSystems
    /\ pending.vendor = << "HP" >> => pending.os \notin CiscoSystems

\* the description with every cue was parsed: CISCO with IOS XR
CuePrecedenceWitness ==
  /\ Probed /\ ProbeOver
  /\ snmp.descr = DescrEveryCue
  /\ pending.vendor = << "CISCO" >> /\ pending.os = << "IOS", Sp, "XR" >>

ReportsNoRun(w) ==
  worker[w].res.err \in {DialErr(variant), NoCmdsErr("configure")}

\* C28: configure calls Client.Run for a host only with the open connection
\* of a successful Dial and with the non-empty command list selected for the
\* host; a host whose dial failed or that matched no rule is never run.
RunOnlyWithCommands ==
  /\ \A w \in Workers :
       /\ worker[w].pc = "run" =>
            /\ Len(worker[w].cmds) > 0
            /\ conn[worker[w].host] = "open"
            /\ ran[worker[w].host] = 0
       /\ worker[w].pc \in {"send", "close"} /\ ReportsNoRun(w) =>
            ran[worker[w].host] = 0 /\ worker[w].cmds = << >>
  /\ \A h \in AllHosts : ran[h] >= 1 => conn[h] # "none" /\ dialed[h] = 1
  /\ \A k \in DOMAIN cfgCmds : Len(cfgCmds[k]) > 0

\* one host has been run on its open connection while the host whose dial
\* failed has been reported without a run
RunOnlyWithCommandsWitness ==
  \E h1, h2 \in AllHosts :
    /\ ran[h1] = 1 /\ conn[h1] = "open"
    /\ dialed[h2] = 1 /\ conn[h2] = "none" /\ sent[h2] = 1 /\ ran[h2] = 0

(***************************************************************************)
(* Properties of the worker count                                          *)
(***************************************************************************)
\* the read loop finds the results channel closed and empty
SeesClosed == pcMain = "read results" /\ resultsClosed /\ results = << >>

\* C29: for every workers flag of 0 or more the read loop of runCfg has
\* received a result for each host before it can find the results channel
\* closed: runCfg never returns "run: error reading results, nil channel".
NilChannelUnreachable ==
  /\ mainErr # ClosedErr("configure")
  /\ SeesClosed => nread = Len(hosts)

\* the commands of the rules from k on that are stored under the key, in
\* the order of the rules
RECURSIVE CmdsUnder(_, _)
CmdsUnder(key, k) ==
  IF k > Len(cfg) THEN << >>
  ELSE (IF key \in StoredKeys(cfg[k]) THEN InOrder(cfg[k].Cmds) ELSE << >>)
         \o CmdsUnder(key, k + 1)

\* the rules with commands, and their (fields, model) combinations
WithCmds == {k \in DOMAIN cfg : InOrder(cfg[k].Cmds) # << >>}
ModelsOf(set) ==
  IF Len(set.Models) = 0 THEN {Empty} ELSE {set.Models[i] : i \in 1..Len(set.Models)}
Combinations ==
  UNION {{<< cfg[k].Addr, cfg[k].Hostname, cfg[k].Vendor, cfg[k].OS, model,
             cfg[k].Version >> : model \in ModelsOf(cfg[k])} : k \in WithCmds}

\* C30: rules with the same key share one list, the commands of the earlier
\* rule followed by those of the later one, none dropped or replaced; the map
\* has exactly one key for every (fields, model) combination of a rule with
\* commands.
SameKeyConcatenates ==
  Mapped =>
    /\ DOMAIN cfgCmds = UNION {StoredKeys(cfg[k]) : k \in WithCmds}
    /\ \A key \in DOMAIN cfgCmds : cfgCmds[key] = CmdsUnder(key, 1)
    /\ Cardinality(DOMAIN cfgCmds) = Cardinality(Combinations)

\* two rules without any match field: one generic list, the commands of the
\* first rule and then those of the second
SameKeyConcatenatesWitness ==
  /\ Mapped
  /\ Len(cfg) = 2
  /\ \A k \in {1, 2} : cfg[k].Vendor = Empty /\ cfg[k].Models = << >>
  /\ cfg[1].Cmds.kind = "seq" /\ cfg[2].Cmds.kind = "seq"
  /\ cfg[1].Cmds.items = << "c1" >> /\ cfg[2].Cmds.items = << "c2", "c1" >>
  /\ DOMAIN cfgCmds = {GenericKey}
  /\ cfgCmds[GenericKey] = << "c1", "c2", "c1" >>

====
